---- MODULE Spec2Model ----
(***************************************************************************)
(* Model of app/main.py (Media Downloader API): the in-memory job registry *)
(* DOWNLOAD_JOBS, the background worker _run_download_job, and the HTTP    *)
(* handlers download_start, download_status and download_file.             *)
(*                                                                         *)
(* DOWNLOAD_JOBS maps a job id to a Python dict OBJECT.  The worker either *)
(* mutates that object in place (set_progress) or rebinds the key to a     *)
(* freshly built dict (registration, done, error).  The handlers fetch the *)
(* object reference under _JOBS_LOCK and read its fields after the lock is *)
(* released, so the model keeps a heap of dict objects and lets a handler  *)
(* read one field per step.                                                *)
(***************************************************************************)
EXTENDS Integers, Sequences, FiniteSets, TLC

\* ---------------------------------------------------------------- bounds
NJobs == 2          \* job ids that download_start can issue

Jobs == 1..NJobs

\* ------------------------------------------------------- values and inputs
None == "<None>"                       \* Python None
Paths == {"/d/v1_A.mp4", "/d/A.mp3"}   \* files the backends can produce
Titles == {"", "Song"}                 \* info["title"] or fulltitle or track
\* str(e) of the exceptions a backend can raise
Errors == {"", "HTTP Error 404", "Impersonate target not available"}
\* the reports d handed to progress_hook: d["status"], d["total_bytes"] or
\* d["total_bytes_estimate"] (0 when unknown) and d["downloaded_bytes"]
HookReports ==
    {[status |-> "downloading", total |-> 10, downloaded |-> 0],
     [status |-> "downloading", total |-> 10, downloaded |-> 5],
     [status |-> "downloading", total |-> 10, downloaded |-> 13],
     [status |-> "downloading", total |-> 0, downloaded |-> 5],
     [status |-> "finished", total |-> 10, downloaded |-> 10],
     [status |-> "error", total |-> 0, downloaded |-> 0]}

ImpersonationHint ==
    "Cloudflare/impersonation needs curl_cffi. Run: pip install curl_cffi  then restart the app."
SpotifyErrors == {"400: Spotify downloads require spotdl. Install with: pip install spotdl",
                  "400: Spotify download failed: Unknown error",
                  "500: Spotify download produced no audio file",
                  "400: Spotify download timed out"}

Min(a, b) == IF a < b THEN a ELSE b
Max(a, b) == IF a > b THEN a ELSE b

VARIABLES
    heap,           \* per job id: the dict objects built for that key, in order
    DOWNLOAD_JOBS,  \* job id -> index into heap[id] of the dict the key is
                    \* bound to, 0 when the key is absent
    files,          \* paths for which os.path.isfile is true
    wpc,            \* position of each job's worker thread
    isSpotify,      \* _is_spotify_url(url) of the job's url
    issued,         \* job ids that download_start has returned
    cpc,            \* position of the client's current request
    cjob,           \* job id of the current request
    cref,           \* the dict object the handler fetched under the lock
    cbody,          \* the response body being built by download_status
    resp,           \* the last completed response
    seen,           \* per job: (status, progress) of the last successful poll, <<>> if none
    held,           \* the field combinations the polled job's record has held
                    \* since download_status fetched it
    pin,            \* the arguments of the function call under study
    ppc,            \* "idle", "call" before the function runs, "ret" after
    pout,           \* what the calls returned, in order
    host,           \* the optional tools installed on the host
    _IMPERSONATION_AVAILABLE    \* the memo of _use_impersonation: <<>> is None

vars == <<heap, DOWNLOAD_JOBS, files, wpc, isSpotify, issued,
          cpc, cjob, cref, cbody, resp, seen, held, pin, ppc, pout, host,
          _IMPERSONATION_AVAILABLE>>

\* the registry, its workers and its client
jobVars == <<heap, DOWNLOAD_JOBS, files, wpc, isSpotify, issued,
             cpc, cjob, cref, cbody, resp, seen, held>>
\* a single function call
callVars == <<pin, ppc, pout, host, _IMPERSONATION_AVAILABLE>>

workerVars == <<heap, DOWNLOAD_JOBS, wpc, isSpotify>>
clientVars == <<cpc, cjob, cref, cbody, resp, seen>>

\* ----------------------------------------------------------- the registry
JobRecord(status, progress, path, filename, error) ==
    [status |-> status, progress |-> progress, path |-> path,
     filename |-> filename, error |-> error]

\* registration with the data model's other initial status
InitialRecordPending == JobRecord("pending", 0, None, None, None)

\* line 336
InitialRecord == JobRecord("downloading", 0, None, None, None)

\* a done record that forgets the display filename
DoneRecordNoFilename(path, filename) == JobRecord("done", 100, path, None, None)

\* lines 351 and 417
DoneRecord(path, filename) == JobRecord("done", 100, path, filename, None)

\* lines 400 and 423
ErrorRecord(err) == JobRecord("error", 0, None, None, err)

HasJob(reg, j) == reg[j] # 0

\* the record a key is bound to (only used where the key is present)
Rec(h, reg, j) == h[j][reg[j]]

\* DOWNLOAD_JOBS[job_id].update({...}): overwrite the bound dict in place
RebindInPlace(h, reg, j, rec) ==
    IF HasJob(reg, j)
    THEN [heap |-> [h EXCEPT ![j][reg[j]] = rec], reg |-> reg]
    ELSE [heap |-> [h EXCEPT ![j] = Append(@, rec)], reg |-> [reg EXCEPT ![j] = Len(h[j]) + 1]]

\* DOWNLOAD_JOBS = {job_id: {...}}: replace the whole table
RebindTable(h, reg, j, rec) ==
    [heap |-> [h EXCEPT ![j] = Append(@, rec)],
     reg |-> [k \in DOMAIN reg |-> IF k = j THEN Len(h[j]) + 1 ELSE 0]]

\* DOWNLOAD_JOBS[job_id] = {...}: bind the key to a freshly built dict
Rebind(h, reg, j, rec) ==
    [heap |-> [h EXCEPT ![j] = Append(@, rec)], reg |-> [reg EXCEPT ![j] = Len(h[j]) + 1]]

\* set_progress storing the reported value
SetProgressOverwrite(h, reg, j, progress, status) ==
    IF HasJob(reg, j)
    THEN [h EXCEPT ![j][reg[j]].progress = Min(100, progress),
                   ![j][reg[j]].status = status]
    ELSE h

\* set_progress (lines 338-344): in-place update of the bound dict
SetProgress(h, reg, j, progress, status) ==
    IF HasJob(reg, j)
    THEN LET prev == h[j][reg[j]].progress
         IN [h EXCEPT ![j][reg[j]].progress = Min(100, Max(prev, progress)),
                      ![j][reg[j]].status = status]
    ELSE h

\* the fields download_status hands out
View(rec) == <<rec.status, rec.progress, rec.filename, rec.error>>

\* the history of the record being polled, after a write to job j
Record(h, reg, j, hd) ==
    IF cpc = "status" /\ cjob = j /\ HasJob(reg, j)
    THEN hd \cup {View(Rec(h, reg, j))}
    ELSE hd

NoResp == [kind |-> "none", job |-> 0, code |-> 0, body |-> None, wasIssued |-> FALSE]

\* no job started, no request made
JobsInit ==
    /\ heap = [j \in Jobs |-> <<>>]
    /\ DOWNLOAD_JOBS = [j \in Jobs |-> 0]
    /\ files = {}
    /\ wpc = [j \in Jobs |-> "idle"]
    /\ isSpotify = [j \in Jobs |-> FALSE]
    /\ issued = {}
    /\ cpc = "idle"
    /\ cjob = 0
    /\ cref = 0
    /\ cbody = <<>>
    /\ resp = NoResp
    /\ seen = [j \in Jobs |-> <<>>]
    /\ held = {}

Init ==
    /\ JobsInit
    /\ pin = <<>>
    /\ ppc = "idle"
    /\ pout = <<>>
    /\ host = {}
    /\ _IMPERSONATION_AVAILABLE = <<>>

\* ---------------------------------------------------------- download_start
\* lines 442-452: start the worker thread and return the job id
download_start(j) ==
    /\ wpc[j] = "idle"
    /\ \E sp \in BOOLEAN : isSpotify' = [isSpotify EXCEPT ![j] = sp]
    /\ wpc' = [wpc EXCEPT ![j] = "register"]
    /\ issued' = issued \cup {j}
    /\ UNCHANGED <<heap, DOWNLOAD_JOBS, files, held>>
    /\ UNCHANGED clientVars
    /\ UNCHANGED callVars

\* ------------------------------------------------------ _run_download_job
\* lines 335-336: register the job
Register(j) ==
    /\ wpc[j] = "register"
    /\ LET r == Rebind(heap, DOWNLOAD_JOBS, j, InitialRecord)
       IN /\ heap' = r.heap
          /\ DOWNLOAD_JOBS' = r.reg
          /\ held' = Record(r.heap, r.reg, j, held)
    /\ wpc' = [wpc EXCEPT ![j] = "classify"]
    /\ UNCHANGED <<files, isSpotify, issued>>
    /\ UNCHANGED clientVars
    /\ UNCHANGED callVars

\* lines 347-348: the streaming-service branch reports progress 10
ClassifySpotify(j) ==
    /\ wpc[j] = "classify"
    /\ isSpotify[j]
    /\ heap' = SetProgress(heap, DOWNLOAD_JOBS, j, 10, "downloading")
    /\ held' = Record(heap', DOWNLOAD_JOBS, j, held)
    /\ wpc' = [wpc EXCEPT ![j] = "spotify"]
    /\ UNCHANGED <<DOWNLOAD_JOBS, files, isSpotify, issued>>
    /\ UNCHANGED clientVars
    /\ UNCHANGED callVars

\* lines 354-387: the generic branch configures the backend
ClassifyGeneric(j) ==
    /\ wpc[j] = "classify"
    /\ ~isSpotify[j]
    /\ wpc' = [wpc EXCEPT ![j] = "ydl"]
    /\ UNCHANGED <<heap, DOWNLOAD_JOBS, files, isSpotify, issued, held>>
    /\ UNCHANGED clientVars
    /\ UNCHANGED callVars

\* os.path.basename, os.path.splitext of the paths of the model
Basename(p) == CASE p = "/d/v1_A.mp4" -> "v1_A.mp4"
                 [] p = "/d/A.mp3" -> "A.mp3"
                 [] p = "/d/u/A.mp3" -> "A.mp3"
                 [] p = "/d/u/B.M4A" -> "B.M4A"
                 [] p = "/d/u/A.lrc" -> "A.lrc"
                 [] OTHER -> ""
Ext(p) == CASE p = "/d/v1_A.mp4" -> ".mp4"
            [] p = "/d/A.mp3" -> ".mp3"
            [] OTHER -> ".mp4"
\* lines 406-411 for info["id"] = "v1": the stem without its "v1_" prefix
StemTitle(p) == "A"

\* lines 403-414; the titles of the model hold no character that
\* _sanitize_filename removes
DisplayFilename(title, path) ==
    LET t == IF title # "" THEN title ELSE StemTitle(path)
        filename == t \o Ext(path)
    IN IF filename = "" \/ filename = ".mp4" THEN Basename(path) ELSE filename

\* without the `return` of line 352 the worker falls into the generic branch
SpotifyFallThroughPc == "ydl"

\* the position after the `return` of line 352
SpotifyReturnPc == "end"

\* lines 349-352: _download_spotify returned (path, filename)
SpotifyDone(j) ==
    /\ wpc[j] = "spotify"
    /\ \E p \in Paths :
         /\ files' = files \cup {p}
         /\ LET r == Rebind(heap, DOWNLOAD_JOBS, j, DoneRecord(p, Basename(p)))
            IN /\ heap' = r.heap
               /\ DOWNLOAD_JOBS' = r.reg
               /\ held' = Record(r.heap, r.reg, j, held)
    /\ wpc' = [wpc EXCEPT ![j] = SpotifyReturnPc]
    /\ UNCHANGED <<isSpotify, issued>>
    /\ UNCHANGED clientVars
    /\ UNCHANGED callVars

\* line 420: the substring test on str(e), over the messages of the model
MentionsImpersonation(err) == err = "Impersonate target not available"

\* lines 419-421
RewriteErr(err) == IF MentionsImpersonation(err) THEN ImpersonationHint ELSE err

\* an except clause that does not catch the exception: the thread dies
HandleExceptionUncaught(j, e) ==
    /\ wpc' = [wpc EXCEPT ![j] = "end"]
    /\ UNCHANGED <<heap, DOWNLOAD_JOBS, held>>

\* lines 418-423: the except clause
HandleException(j, e) ==
    /\ LET r == Rebind(heap, DOWNLOAD_JOBS, j, ErrorRecord(RewriteErr(e)))
       IN /\ heap' = r.heap
          /\ DOWNLOAD_JOBS' = r.reg
          /\ held' = Record(r.heap, r.reg, j, held)
    /\ wpc' = [wpc EXCEPT ![j] = "end"]

\* lines 213-217, 228-230, 233-234, 238-239: _download_spotify raised
SpotifyFail(j) ==
    /\ wpc[j] = "spotify"
    /\ \E e \in SpotifyErrors : HandleException(j, e)
    /\ UNCHANGED <<files, isSpotify, issued>>
    /\ UNCHANGED clientVars
    /\ UNCHANGED callVars

\* progress_hook (lines 357-366) applied to the report d
progress_hook(h, reg, j, d) ==
    IF d.status = "downloading"
    THEN IF d.total > 0
         THEN SetProgress(h, reg, j, (100 * d.downloaded) \div d.total, "downloading")
         ELSE SetProgress(h, reg, j, 50, "downloading")
    ELSE IF d.status = "finished"
         THEN SetProgress(h, reg, j, 100, "downloading")
         ELSE h

\* the backend calls progress_hook while extract_info runs (line 391)
ProgressReport(j) ==
    /\ wpc[j] = "ydl"
    /\ \E d \in HookReports : heap' = progress_hook(heap, DOWNLOAD_JOBS, j, d)
    /\ held' = Record(heap', DOWNLOAD_JOBS, j, held)
    /\ UNCHANGED <<DOWNLOAD_JOBS, files, wpc, isSpotify, issued>>
    /\ UNCHANGED clientVars
    /\ UNCHANGED callVars

\* line 391: extract_info raised
BackendRaise(j) ==
    /\ wpc[j] = "ydl"
    /\ \E e \in Errors : HandleException(j, e)
    /\ UNCHANGED <<files, isSpotify, issued>>
    /\ UNCHANGED clientVars
    /\ UNCHANGED callVars

\* the manifest's path taken without the second isfile test
ResultPathUnverified(b, fs) ==
    LET fallback == IF b.info THEN b.req ELSE None
    IN IF ~b.info \/ b.path = None \/ b.path \notin fs THEN fallback ELSE b.path

\* lines 395-397: the path of the produced file, None when there is none;
\* b is what extract_info and prepare_filename returned
ResultPath(b, fs) ==
    LET fallback == IF b.info THEN b.req ELSE None
        path == IF ~b.info \/ b.path = None \/ b.path \notin fs THEN fallback ELSE b.path
    IN IF path = None \/ path \notin fs THEN None ELSE path

\* what extract_info (line 391) can return: no info, or info with a title,
\* the path prepare_filename derives and the manifest's first filepath
BackendResults ==
    {[info |-> FALSE, title |-> "", path |-> None, req |-> None]} \cup
    [info : {TRUE}, title : Titles, path : Paths, req : Paths \cup {None}]

\* lines 395-417: the record the job ends with when extract_info returned b
\* and the files fs exist
FinalRecord(b, fs) ==
    LET path == ResultPath(b, fs)
    IN IF path = None THEN ErrorRecord("Downloaded file not found")
       ELSE DoneRecord(path, DisplayFilename(b.title, path))

\* lines 390-417: extract_info returned, having written all, some or none of
\* the files it names; check the produced file, then record done or error
Finalize(j) ==
    /\ wpc[j] = "ydl"
    /\ \E b \in BackendResults :
       \E created \in SUBSET ({b.path, b.req} \ {None}) :
         /\ files' = files \cup created
         /\ LET r == Rebind(heap, DOWNLOAD_JOBS, j, FinalRecord(b, files'))
            IN /\ heap' = r.heap
               /\ DOWNLOAD_JOBS' = r.reg
               /\ held' = Record(r.heap, r.reg, j, held)
    /\ wpc' = [wpc EXCEPT ![j] = "end"]
    /\ UNCHANGED <<isSpotify, issued>>
    /\ UNCHANGED clientVars
    /\ UNCHANGED callVars

\* one step of the worker thread of job j
Worker(j) ==
    \/ Register(j)
    \/ ClassifySpotify(j)
    \/ ClassifyGeneric(j)
    \/ SpotifyDone(j)
    \/ SpotifyFail(j)
    \/ ProgressReport(j)
    \/ BackendRaise(j)
    \/ Finalize(j)

\* --------------------------------------------------------- download_status
\* the keys of the response, in the order lines 462-467 read them
Fields == <<"status", "progress", "filename", "error">>

\* lines 458-461: fetch the dict under the lock; 404 when the key is absent
StatusGet(j) ==
    /\ cpc = "idle"
    /\ IF HasJob(DOWNLOAD_JOBS, j)
       THEN /\ cpc' = "status"
            /\ cjob' = j
            /\ cref' = DOWNLOAD_JOBS[j]
            /\ cbody' = <<>>
            /\ held' = {View(Rec(heap, DOWNLOAD_JOBS, j))}
            /\ UNCHANGED resp
       ELSE /\ resp' = [kind |-> "status", job |-> j, code |-> 404, body |-> None,
                        wasIssued |-> j \in issued]
            /\ UNCHANGED <<cpc, cjob, cref, cbody, held>>
    /\ UNCHANGED seen
    /\ UNCHANGED <<files, issued>>
    /\ UNCHANGED workerVars
    /\ UNCHANGED callVars

\* lines 463-465: read the next field of the fetched dict, lock released
StatusReadField ==
    /\ cpc = "status"
    /\ Len(cbody) < Len(Fields) - 1
    /\ cbody' = Append(cbody, heap[cjob][cref][Fields[Len(cbody) + 1]])
    /\ UNCHANGED <<cpc, cjob, cref, resp, seen, held>>
    /\ UNCHANGED <<files, issued>>
    /\ UNCHANGED workerVars
    /\ UNCHANGED callVars

\* lines 466-467: read the last field and return the body
StatusRespond ==
    /\ cpc = "status"
    /\ Len(cbody) = Len(Fields) - 1
    /\ LET body == Append(cbody, heap[cjob][cref][Fields[Len(Fields)]])
       IN /\ resp' = [kind |-> "status", job |-> cjob, code |-> 200, body |-> body,
                      wasIssued |-> cjob \in issued]
          /\ seen' = [seen EXCEPT ![cjob] = <<body[1], body[2]>>]
    /\ cpc' = "idle"
    /\ cjob' = 0
    /\ cref' = 0
    /\ cbody' = <<>>
    /\ UNCHANGED <<files, issued, held>>
    /\ UNCHANGED workerVars
    /\ UNCHANGED callVars

\* ----------------------------------------------------------- download_file
\* lines 473-476: fetch the dict under the lock; 404 when the key is absent
FileGet(j) ==
    /\ cpc = "idle"
    /\ IF HasJob(DOWNLOAD_JOBS, j)
       THEN /\ cpc' = "file"
            /\ cjob' = j
            /\ cref' = DOWNLOAD_JOBS[j]
            /\ UNCHANGED resp
       ELSE /\ resp' = [kind |-> "file", job |-> j, code |-> 404, body |-> None,
                        wasIssued |-> j \in issued]
            /\ UNCHANGED <<cpc, cjob, cref>>
    /\ UNCHANGED <<cbody, seen, held>>
    /\ UNCHANGED <<files, issued>>
    /\ UNCHANGED workerVars
    /\ UNCHANGED callVars

\* line 477 without the os.path.isfile test
FileOutcomeNoIsfile(job, fs) ==
    IF job.status # "done" \/ job.path = None THEN 400 ELSE 200

\* line 477: 200 with the file, or 400
FileOutcome(job, fs) ==
    IF job.status # "done" \/ job.path = None \/ job.path \notin fs THEN 400 ELSE 200

\* lines 477-484
FileRespond ==
    /\ cpc = "file"
    /\ LET code == FileOutcome(heap[cjob][cref], files)
       IN resp' = [kind |-> "file", job |-> cjob, code |-> code,
                   body |-> IF code = 200 THEN heap[cjob][cref].path ELSE None,
                   wasIssued |-> cjob \in issued]
    /\ cpc' = "idle"
    /\ cjob' = 0
    /\ cref' = 0
    /\ UNCHANGED <<cbody, seen, held>>
    /\ UNCHANGED <<files, issued>>
    /\ UNCHANGED workerVars
    /\ UNCHANGED callVars

\* ------------------------------------------------------------- environment
\* DOWNLOADS_DIR is a temporary directory: a produced file can disappear
DeleteFile ==
    /\ \E p \in files : files' = files \ {p}
    /\ UNCHANGED <<issued, held>>
    /\ UNCHANGED workerVars
    /\ UNCHANGED clientVars
    /\ UNCHANGED callVars

\* ------------------------------------------------------------ capabilities
\* the optional tools the code probes for
Tools == {"ffmpeg", "curl_cffi"}

\* _ffmpeg_available (lines 107-109): shutil.which at the moment of the call
_ffmpeg_available(h) == "ffmpeg" \in h

\* a tool is installed on, or removed from, the host
Install(t) ==
    /\ t \notin host
    /\ host' = host \cup {t}
    /\ UNCHANGED <<pin, ppc, pout, _IMPERSONATION_AVAILABLE>>
    /\ UNCHANGED jobVars

Uninstall(t) ==
    /\ t \in host
    /\ host' = host \ {t}
    /\ UNCHANGED <<pin, ppc, pout, _IMPERSONATION_AVAILABLE>>
    /\ UNCHANGED jobVars

\* ------------------------------------------- _build_merged_format_options
\* a format of info["formats"]: "" stands for a missing or empty codec;
\* hkind tells whether f["height"] is an int, a float or missing
Format(vcodec, acodec, hkind, height) ==
    [vcodec |-> vcodec, acodec |-> acodec, hkind |-> hkind, height |-> height]

\* the frame heights of the video formats of the model: any of the first
\* set, and all or none of the second
BaseHeights == {480, 720, 1080}
MoreHeights == {144, 240, 360, 1440, 2160, 4320}
HeightSets == {B \cup M : B \in SUBSET BaseHeights, M \in {{}, MoreHeights}}

\* the other formats a backend reports
ExtraFormats ==
    <<Format("none", "mp4a", "none", 0),     \* audio only
      Format("vp9", "none", "int", 720),     \* a second codec at 720
      Format("avc1", "mp4a", "float", 540),  \* height 540.0
      Format("none", "none", "int", 90),     \* storyboard images
      Format("avc1", "", "int", 0)>>         \* height 0

RECURSIVE Ascending(_)
\* a set of integers as a sequence, smallest first
Ascending(S) ==
    IF S = {} THEN <<>>
    ELSE LET m == CHOOSE x \in S : \A y \in S : x <= y
         IN <<m>> \o Ascending(S \ {m})

RECURSIVE Pick(_, _)
\* the elements of a sequence at the indices of X, in order
Pick(sq, X) ==
    IF sq = <<>> THEN <<>>
    ELSE (IF 1 \in X THEN <<Head(sq)>> ELSE <<>>)
            \o Pick(Tail(sq), {i - 1 : i \in X \ {1}})

\* the video formats of the heights H, listed worst first as yt-dlp does
VideoFormats(H) ==
    LET hs == Ascending(H)
    IN [i \in 1..Len(hs) |-> Format("avc1", "none", "int", hs[i])]

\* the metadata extract_info(url, download=False) can return
Metadata ==
    {[formats |-> VideoFormats(H) \o Pick(ExtraFormats, X)] :
        H \in HeightSets, X \in SUBSET DOMAIN ExtraFormats}

\* the slice bound of lines 273 and 295
MaxHeightOptions == 8

RECURSIVE SortedDesc(_)
\* sorted(..., reverse=True) of a set of integers
SortedDesc(S) ==
    IF S = {} THEN <<>>
    ELSE LET m == CHOOSE x \in S : \A y \in S : y <= x
         IN <<m>> \o SortedDesc(S \ {m})

\* s[:n]
Take(sq, n) == SubSeq(sq, 1, Min(n, Len(sq)))

\* the result of an f-string: the pieces, an integer rendered by ToString
HeightId(h) == "height_" \o ToString(h)

\* a format selector, as the sequence of its tokens
MergedSelector(h) ==
    <<"bestvideo", "[height<=", ToString(h), "]", "+", "bestaudio", "/",
      "best", "[height<=", ToString(h), "]">>
SingleSelector(h) == <<"best", "[height<=", ToString(h), "]">>

Option(id, label, format_spec, note) ==
    [id |-> id, label |-> label, format_spec |-> format_spec, note |-> note]

\* lines 274-279
MergedHeightOption(h) ==
    Option(HeightId(h), ToString(h) \o "p (video + audio)", MergedSelector(h),
           "Up to " \o ToString(h) \o "p, merged")

\* the no-ffmpeg branch built with the selector of the ffmpeg branch
SingleHeightOptionMerging(h) ==
    Option(HeightId(h), ToString(h) \o "p (video + audio)", MergedSelector(h),
           "Up to " \o ToString(h) \o "p (no ffmpeg)")

\* lines 296-301
SingleHeightOption(h) ==
    Option(HeightId(h), ToString(h) \o "p (video + audio)", SingleSelector(h),
           "Up to " \o ToString(h) \o "p (no ffmpeg)")

\* lines 280-285
MergedBestOption ==
    Option("best", "Best (video + audio)", <<"bestvideo", "+", "bestaudio", "/", "best">>,
           "Best available quality")

\* lines 302-307
SingleBestOption ==
    Option("best", "Best (video + audio)", <<"best">>,
           "Best single file (install ffmpeg for more options)")

\* lines 287-292 and 309-314
AudioOnlyOption ==
    Option("audio_only", "Audio only (music)", <<"bestaudio", "/", "best">>,
           "Best audio quality, no video")

\* lines 316-321
BestAudioOption == Option("best_audio", "Best audio", <<"bestaudio", "/", "best">>, "Audio only")

\* lines 323-328
BestOption == Option("best", "Best", <<"best">>, "Single stream")

\* any non-empty codec string counts
HasCodecOrNone(c) == c # ""

\* f.get(codec) and f.get(codec) != "none"
HasCodec(c) == c # "" /\ c # "none"

\* lines 267-270: the distinct truthy int heights, largest first
Heights(formats) ==
    SortedDesc({formats[i].height : i \in {k \in DOMAIN formats :
                   formats[k].hkind = "int" /\ formats[k].height # 0}})

\* every height, without the slice
TopHeightsUnsliced(heights) == heights

\* lines 273 and 295: heights[:8]
TopHeights(heights) == Take(heights, MaxHeightOptions)

\* lines 273-279: one merging option for each of the first 8 heights
MergedHeightOptions(heights) ==
    LET hs == TopHeights(heights)
    IN [i \in 1..Len(hs) |-> MergedHeightOption(hs[i])]

\* lines 295-301: one single-stream option for each of the first 8 heights
SingleHeightOptions(heights) ==
    LET hs == TopHeights(heights)
    IN [i \in 1..Len(hs) |-> SingleHeightOption(hs[i])]

\* lines 254-330, with can_merge the value _ffmpeg_available() returned
_build_merged_format_options(info, can_merge) ==
    LET formats == info.formats
        has_video == \E i \in DOMAIN formats : HasCodec(formats[i].vcodec)
        has_audio == \E i \in DOMAIN formats : HasCodec(formats[i].acodec)
        heights == Heights(formats)
    IN IF has_video /\ has_audio
       THEN (IF can_merge
             THEN MergedHeightOptions(heights)
                    \o <<MergedBestOption, AudioOnlyOption>>
             ELSE SingleHeightOptions(heights)
                    \o <<SingleBestOption>>)
            \o <<AudioOnlyOption>>
       ELSE IF has_audio /\ ~has_video
            THEN <<BestAudioOption>>
            ELSE <<BestOption>>

\* the calls of one process to the option builder
MaxCalls == 2

\* lines 262 and 545: probe for ffmpeg, then build the options for the metadata
BuildOptions ==
    /\ ppc = "formats"
    /\ Len(pout) < MaxCalls
    /\ LET can_merge == _ffmpeg_available(host)
       IN pout' = Append(pout, [can_merge |-> can_merge,
                                options |-> _build_merged_format_options(pin, can_merge)])
    /\ UNCHANGED <<pin, ppc, host, _IMPERSONATION_AVAILABLE>>
    /\ UNCHANGED jobVars

FormatsInit ==
    /\ JobsInit
    /\ pin \in Metadata
    /\ ppc = "formats"
    /\ pout = <<>>
    /\ host \in SUBSET {"ffmpeg"}
    /\ _IMPERSONATION_AVAILABLE = <<>>

FormatsNext ==
    \/ BuildOptions
    \/ Install("ffmpeg")
    \/ Uninstall("ffmpeg")

\* the option builder called on one metadata while ffmpeg comes and goes
FormatsSpec == FormatsInit /\ [][FormatsNext]_vars

\* ------------------------------------------- the two ways to download
\* extract_info returned nothing
NoInfo == [info |-> FALSE, title |-> "", path |-> None, req |-> None]

\* one download: the kind of URL, what the backend did (raised e, or returned
\* the spotdl file p or the yt-dlp result b) and the files fs on disk after it
Download(spotify, raises, e, pth, b, fs) ==
    [spotify |-> spotify, raises |-> raises, e |-> e, p |-> pth, b |-> b, fs |-> fs]

Downloads ==
    {Download(TRUE, TRUE, e, None, NoInfo, {}) : e \in SpotifyErrors}
    \cup {Download(TRUE, FALSE, "", q, NoInfo, F \cup {q}) : q \in Paths, F \in SUBSET Paths}
    \cup {Download(FALSE, TRUE, e, None, NoInfo, {}) : e \in Errors}
    \cup {Download(FALSE, FALSE, "", None, b, F) : b \in BackendResults, F \in SUBSET Paths}

\* lines 345-423: the record _run_download_job leaves for the download c
_run_download_job(c) ==
    IF c.raises THEN ErrorRecord(RewriteErr(c.e))
    ELSE IF c.spotify THEN DoneRecord(c.p, Basename(c.p))
    ELSE FinalRecord(c.b, c.fs)

\* what the client of POST /api/download gets
FileResponse(path, filename) ==
    [ok |-> TRUE, status_code |-> 200, path |-> path, filename |-> filename, detail |-> None]
HTTPException(status_code, detail) ==
    [ok |-> FALSE, status_code |-> status_code, path |-> None, filename |-> None,
     detail |-> detail]

\* the status code of the HTTPException of _download_spotify whose str() is e
\* (lines 214-239)
SpotifyStatus(e) ==
    IF e = "500: Spotify download produced no audio file" THEN 500 ELSE 400

\* lines 607-609 without the manifest
SyncPathNoManifest(b, fs) == b.path

\* lines 607-609: the primary path, else the manifest's first path
SyncPath(b, fs) == IF b.path = None \/ b.path \notin fs THEN b.req ELSE b.path

\* lines 554-641: download_media for the download c
download_media(c) ==
    IF c.spotify
    THEN IF c.raises THEN HTTPException(SpotifyStatus(c.e), c.e)
         ELSE FileResponse(c.p, Basename(c.p))
    ELSE IF c.raises THEN HTTPException(400, "Download failed: " \o RewriteErr(c.e))
    ELSE IF ~c.b.info THEN HTTPException(400, "Download produced no file")
    ELSE LET path == SyncPath(c.b, c.fs)
         IN IF path = None \/ path \notin c.fs
            THEN HTTPException(500, "Downloaded file not found")
            ELSE FileResponse(path, DisplayFilename(c.b.title, path))

\* who has handled the download so far
Ran == {pout[i].by : i \in DOMAIN pout}

\* the job path handles the download
RunJob ==
    /\ ppc = "download"
    /\ "job" \notin Ran
    /\ pout' = Append(pout, [by |-> "job", rec |-> _run_download_job(pin)])
    /\ UNCHANGED <<pin, ppc, host, _IMPERSONATION_AVAILABLE>>
    /\ UNCHANGED jobVars

\* POST /api/download handles the download
RunSync ==
    /\ ppc = "download"
    /\ "sync" \notin Ran
    /\ pout' = Append(pout, [by |-> "sync", res |-> download_media(pin)])
    /\ UNCHANGED <<pin, ppc, host, _IMPERSONATION_AVAILABLE>>
    /\ UNCHANGED jobVars

DownloadInit ==
    /\ JobsInit
    /\ pin \in Downloads
    /\ ppc = "download"
    /\ pout = <<>>
    /\ host = {}
    /\ _IMPERSONATION_AVAILABLE = <<>>

DownloadNext == RunJob \/ RunSync

\* one download handled by the job path and by POST /api/download
DownloadSpec == DownloadInit /\ [][DownloadNext]_vars

\* ------------------------------------------------------ _sanitize_filename
\* a string is the sequence of its characters; a control code is written by
\* its name: "<NUL>" is \x00, "<SOH>" is \x01, "<US>" is \x1f
ControlCodes == {"<NUL>", "<SOH>", "<US>"}

\* the character class of the re.sub of line 102
Removed == {"<", ">", ":", "\"", "/", "\\", "|", "?", "*"} \cup ControlCodes
Kept(c) == c \notin Removed

\* what str.strip() removes: the space, and \x1f which Python counts as
\* whitespace
Whitespace == {" ", "<US>"}

\* s.strip(cs)
Strip(sq, cs) ==
    LET keep == {i \in DOMAIN sq : sq[i] \notin cs}
    IN IF keep = {} THEN <<>>
       ELSE LET first == CHOOSE i \in keep : \A k \in 1..(i - 1) : sq[k] \in cs
                last == CHOOSE i \in keep : \A k \in (i + 1)..Len(sq) : sq[k] \in cs
            IN SubSeq(sq, first, last)

Media == <<"m", "e", "d", "i", "a">>

\* line 104 without the slice
TruncateWhole(name, max_length) == IF name # <<>> THEN name ELSE Media

\* line 104: name[:max_length] if name else "media"
Truncate(name, max_length) ==
    IF name # <<>> THEN SubSeq(name, 1, Min(max_length, Len(name))) ELSE Media

\* lines 97-104
_sanitize_filename(name, max_length) ==
    IF name = <<>> \/ Strip(name, Whitespace) = <<>>
    THEN Media
    ELSE Truncate(Strip(Strip(SelectSeq(name, Kept), Whitespace), {"."}), max_length)

\* the default of the parameter max_length (line 97)
DefaultMaxLength == 200

\* the names of the model: a run of "a" (empty, or just short of the
\* maximal length) between two short strings of any characters
NameChars == {"a", " ", ".", "/", "<SOH>"}
MaxEdge == 2
PadLength == 197
Edges == UNION {[1..k -> NameChars] : k \in 0..MaxEdge}
Names ==
    {pre \o [i \in 1..n |-> "a"] \o suf :
        pre \in Edges, suf \in Edges, n \in {0, PadLength}}

\* lines 413 and 634: the title is made a file name
Sanitize ==
    /\ ppc = "sanitize"
    /\ pout = <<>>
    /\ pout' = <<_sanitize_filename(pin, DefaultMaxLength)>>
    /\ UNCHANGED <<pin, ppc, host, _IMPERSONATION_AVAILABLE>>
    /\ UNCHANGED jobVars

SanitizeInit ==
    /\ JobsInit
    /\ pin \in Names
    /\ ppc = "sanitize"
    /\ pout = <<>>
    /\ host = {}
    /\ _IMPERSONATION_AVAILABLE = <<>>

SanitizeNext == Sanitize

\* _sanitize_filename called on one name
SanitizeSpec == SanitizeInit /\ [][SanitizeNext]_vars

\* ------------------------------------------------- the uses of the flags
\* _impersonation_available (lines 57-63): the import succeeds when curl_cffi
\* is installed
_impersonation_available(h) == "curl_cffi" \in h

\* the selectors of line 354
MergedBest == <<"bestvideo", "+", "bestaudio", "/", "best">>
SingleBest == <<"best">>

\* one use of a flag: the value the code decided on
Use(flag, value) == [flag |-> flag, value |-> value]

\* the uses recorded in one run
MaxUses == 4

\* lines 46-48 and 70-74: the startup hook calls _use_impersonation, which
\* probes when the memo is None and returns the memo
Startup ==
    /\ ppc = "startup"
    /\ _IMPERSONATION_AVAILABLE' =
          IF _IMPERSONATION_AVAILABLE = <<>>
          THEN <<_impersonation_available(host)>>
          ELSE _IMPERSONATION_AVAILABLE
    /\ pout' = Append(pout, Use("impersonation", _IMPERSONATION_AVAILABLE'[1]))
    /\ ppc' = "idle"
    /\ UNCHANGED <<pin, host>>
    /\ UNCHANGED jobVars

\* lines 426-439: GET /api/impersonation-status calls _impersonation_available
impersonation_status ==
    /\ ppc = "idle"
    /\ Len(pout) < MaxUses
    /\ pout' = Append(pout, Use("impersonation", _impersonation_available(host)))
    /\ UNCHANGED <<pin, ppc, host, _IMPERSONATION_AVAILABLE>>
    /\ UNCHANGED jobVars

\* line 354: a job without a selector of its own takes the default one
DefaultFormat ==
    /\ ppc = "idle"
    /\ Len(pout) + 1 < MaxUses
    /\ pin' = [format_spec |-> IF _ffmpeg_available(host) THEN MergedBest ELSE SingleBest,
               merge_output_format |-> None]
    /\ pout' = Append(pout, Use("ffmpeg", _ffmpeg_available(host)))
    /\ ppc' = "opts"
    /\ UNCHANGED <<host, _IMPERSONATION_AVAILABLE>>
    /\ UNCHANGED jobVars

\* lines 382-383: ask for a remux when the selector merges and ffmpeg is there
MergeOutputFormat ==
    /\ ppc = "opts"
    /\ LET merges == \E k \in DOMAIN pin.format_spec : pin.format_spec[k] = "+"
       IN /\ pin' = [pin EXCEPT !.merge_output_format =
                        IF merges /\ _ffmpeg_available(host) THEN "mp4" ELSE None]
          /\ pout' = IF merges
                     THEN Append(pout, Use("ffmpeg", _ffmpeg_available(host)))
                     ELSE pout
    /\ ppc' = "idle"
    /\ UNCHANGED <<host, _IMPERSONATION_AVAILABLE>>
    /\ UNCHANGED jobVars

CapabilityInit ==
    /\ JobsInit
    /\ pin = [format_spec |-> <<>>, merge_output_format |-> None]
    /\ ppc = "startup"
    /\ pout = <<>>
    /\ host \in SUBSET Tools
    /\ _IMPERSONATION_AVAILABLE = <<>>

\* a module once imported stays imported, so curl_cffi is only ever installed
CapabilityNext ==
    \/ Startup
    \/ impersonation_status
    \/ DefaultFormat
    \/ MergeOutputFormat
    \/ Install("ffmpeg")
    \/ Uninstall("ffmpeg")
    \/ Install("curl_cffi")

\* the process from its startup on, on a host whose tools come and go
CapabilitySpec == CapabilityInit /\ [][CapabilityNext]_vars

\* -------------------------------------------------------- _download_spotify
\* the files spotdl can leave in the job's own directory /d/u (lines 218-219)
SpotdlFiles == {"/d/u/A.mp3", "/d/u/B.M4A", "/d/u/A.lrc"}

\* Path.suffix.lower() of these files
LowerSuffix(f) == CASE f = "/d/u/A.mp3" -> ".mp3"
                    [] f = "/d/u/B.M4A" -> ".m4a"
                    [] f = "/d/u/A.lrc" -> ".lrc"

\* line 232
AudioSuffixes == {".mp3", ".m4a", ".opus", ".ogg"}

\* the modification times of the model
MaxMtime == 2

\* one call: whether spotdl can be imported, how the subprocess ended, and
\* the files it left with their modification times
SpotifyRuns ==
    {[spotdl |-> a, run |-> e, st_mtime |-> t] :
        a \in BOOLEAN, e \in {"timeout", "exit0", "exit1"},
        t \in UNION {[F -> 1..MaxMtime] : F \in SUBSET SpotdlFiles}}

\* sorted by st_mtime without reverse=True: the oldest files come first
OldestFiles(fs, st_mtime) ==
    {f \in fs : \A g \in fs : st_mtime[f] <= st_mtime[g]}

\* line 235: the files that can come first in the list sorted by st_mtime,
\* newest first
NewestFiles(fs, st_mtime) ==
    {f \in fs : \A g \in fs : st_mtime[g] <= st_mtime[f]}

\* lines 208-239: the ways _download_spotify can end on the call r
_download_spotify(r) ==
    IF ~r.spotdl
    THEN {Download(TRUE, TRUE,
            "400: Spotify downloads require spotdl. Install with: pip install spotdl",
            None, NoInfo, {})}
    ELSE IF r.run = "timeout"
    THEN {Download(TRUE, TRUE, "400: Spotify download timed out", None, NoInfo, {})}
    ELSE IF r.run # "exit0"
    THEN {Download(TRUE, TRUE, "400: Spotify download failed: Unknown error", None,
                   NoInfo, {})}
    ELSE LET audio == {f \in DOMAIN r.st_mtime : LowerSuffix(f) \in AudioSuffixes}
         IN IF audio = {}
            THEN {Download(TRUE, TRUE, "500: Spotify download produced no audio file",
                           None, NoInfo, {})}
            ELSE {Download(TRUE, FALSE, "", f, NoInfo, DOMAIN r.st_mtime) :
                    f \in NewestFiles(audio, r.st_mtime)}

\* lines 346-352: the job of a Spotify URL runs _download_spotify and records
\* how it ended
RunSpotifyJob ==
    /\ ppc = "spotify"
    /\ pout = <<>>
    /\ \E c \in _download_spotify(pin) :
          pout' = <<[by |-> "job", rec |-> _run_download_job(c)]>>
    /\ UNCHANGED <<pin, ppc, host, _IMPERSONATION_AVAILABLE>>
    /\ UNCHANGED jobVars

SpotifyInit ==
    /\ JobsInit
    /\ pin \in SpotifyRuns
    /\ ppc = "spotify"
    /\ pout = <<>>
    /\ host = {}
    /\ _IMPERSONATION_AVAILABLE = <<>>

SpotifyNext == RunSpotifyJob

\* one job on a Spotify URL
SpotifySpec == SpotifyInit /\ [][SpotifyNext]_vars

\* ------------------------------------------------- the display filename
\* strings are character sequences here, <<>> standing for None and for "";
\* a path is given by the stem and the extension os.path.splitext finds in
\* its basename
Mp4 == <<".", "m", "p", "4">>

\* the metadata fields the filename is made of
Infos ==
    [title : {<<>>, <<" ">>, <<"S">>, <<"/">>},
     fulltitle : {<<>>, <<" ">>, <<"F">>},
     track : {<<>>, <<"T">>},
     id : {<<>>, <<"v", "1">>}]

\* the produced files: named by the template id_title, or named otherwise
ProducedPaths ==
    [stem : {<<"v", "1", "_", "A">>, <<"v", "1", "_">>, <<"A">>},
     ext : {Mp4, <<>>}]

\* a or b
Or(a, b) == IF a # <<>> THEN a ELSE b

\* stem.startswith(prefix)
StartsWith(sq, prefix) ==
    Len(prefix) <= Len(sq) /\ SubSeq(sq, 1, Len(prefix)) = prefix

\* lines 403-414 and 619-635
Filename(info, path) ==
    LET ext == Or(path.ext, Mp4)
        chosen == Or(info.title, Or(info.fulltitle, info.track))
        stem == path.stem
        vid == info.id
        title == IF chosen = <<>> \/ Strip(chosen, Whitespace) = <<>>
                 THEN IF vid # <<>> /\ StartsWith(stem, vid \o <<"_">>)
                      THEN Strip(SubSeq(stem, Len(vid) + 2, Len(stem)), Whitespace)
                      ELSE Or(stem, Media)
                 ELSE chosen
        filename == _sanitize_filename(Strip(title, Whitespace), DefaultMaxLength) \o ext
    IN IF filename = <<>> \/ filename = Mp4 THEN path.stem \o path.ext ELSE filename

\* lines 403-414: the job names the file it produced
ResolveFilename ==
    /\ ppc = "filename"
    /\ pout = <<>>
    /\ pout' = <<Filename(pin.info, pin.path)>>
    /\ UNCHANGED <<pin, ppc, host, _IMPERSONATION_AVAILABLE>>
    /\ UNCHANGED jobVars

FilenameInit ==
    /\ JobsInit
    /\ pin \in [info : Infos, path : ProducedPaths]
    /\ ppc = "filename"
    /\ pout = <<>>
    /\ host = {}
    /\ _IMPERSONATION_AVAILABLE = <<>>

FilenameNext == ResolveFilename

\* the display filename of one download
FilenameSpec == FilenameInit /\ [][FilenameNext]_vars

\* every handler and every worker, for every job id; its state space is the
\* product of JobsSpec and ClientSpec below, under which the properties are stated
Next ==
    \/ \E j \in Jobs : download_start(j)
    \/ \E j \in Jobs : Worker(j)
    \/ \E j \in Jobs : StatusGet(j)
    \/ StatusReadField
    \/ StatusRespond
    \/ \E j \in Jobs : FileGet(j)
    \/ FileRespond
    \/ DeleteFile

Spec == Init /\ [][Next]_vars

\* the worker threads alone: jobs are started and run, nobody polls
JobsNext ==
    \/ \E j \in Jobs : download_start(j)
    \/ \E j \in Jobs : Worker(j)
    \/ DeleteFile

JobsSpec == Init /\ [][JobsNext]_vars

\* one job and a client that polls and fetches any job id
Watched == CHOOSE j \in Jobs : TRUE

ClientNext ==
    \/ download_start(Watched)
    \/ Worker(Watched)
    \/ \E j \in Jobs : StatusGet(j)
    \/ StatusReadField
    \/ StatusRespond
    \/ \E j \in Jobs : FileGet(j)
    \/ FileRespond
    \/ DeleteFile

ClientSpec == Init /\ [][ClientNext]_vars

\* the scheduler runs the started worker thread however the client polls,
\* and the backend call returns or raises after finitely many progress reports
FairClientSpec ==
    /\ ClientSpec
    /\ WF_vars(Worker(Watched))
    /\ WF_vars(Finalize(Watched) \/ BackendRaise(Watched))

TypeOK ==
    /\ \A j \in Jobs : DOWNLOAD_JOBS[j] \in 0..Len(heap[j])
    /\ files \subseteq Paths
    /\ issued \subseteq Jobs

\* ------------------------------------------------------------------ claims
Terminal(st) == st \in {"done", "error"}
Bound(j) == HasJob(DOWNLOAD_JOBS, j)
Job(j) == Rec(heap, DOWNLOAD_JOBS, j)
JobNext(j) == Rec(heap', DOWNLOAD_JOBS', j)

\* C1: the progress values of successive successful polls of one job never
\* decrease and lie in 0..100, the polls of a terminal job included.
C1_PollProgressMonotone ==
    [][\A j \in Jobs :
         seen'[j] # <<>> =>
            /\ seen'[j][2] \in 0..100
            /\ seen[j] # <<>> => seen[j][2] <= seen'[j][2]]_vars

\* C2: once a job's record is done or error, no step changes any field of it.
C2_TerminalImmutable ==
    [][\A j \in Jobs :
         (Bound(j) /\ Terminal(Job(j).status)) =>
            (HasJob(DOWNLOAD_JOBS', j) /\ JobNext(j) = Job(j))]_vars

C2_Witness ==
    \E j, k \in Jobs :
        /\ j # k
        /\ Bound(j) /\ Terminal(Job(j).status)
        /\ wpc[k] = "ydl" /\ Job(k).progress > 0

\* C3: a status poll for an id that download_start has returned never
\* answers 404.
C3_IssuedNeverNotFound ==
    (resp.kind = "status" /\ resp.code = 404) => ~resp.wasIssued

\* C4: a job enters error only from downloading, and the error record keeps
\* the progress the record had just before.
C4_ErrorKeepsProgress ==
    [][\A j \in Jobs :
         (Bound(j) /\ Job(j).status # "error" /\ JobNext(j).status = "error") =>
            (Job(j).status = "downloading" /\ JobNext(j).progress = Job(j).progress)]_vars

\* C5: every record has status downloading, done or error; done comes with
\* progress 100, a path, a filename and no error; otherwise path and filename
\* are unset; error is set exactly when the status is error.
C5_RecordShape ==
    \A j \in Jobs :
        Bound(j) =>
            /\ Job(j).status \in {"downloading", "done", "error"}
            /\ Job(j).status = "done" =>
                  /\ Job(j).progress = 100
                  /\ Job(j).path # None
                  /\ Job(j).filename # None
                  /\ Job(j).error = None
            /\ Job(j).status # "done" =>
                  /\ Job(j).path = None
                  /\ Job(j).filename = None
            /\ (Job(j).error # None) <=> (Job(j).status = "error")

C5_Witness ==
    \E j, k \in Jobs :
        /\ Bound(j) /\ Job(j).status = "done"
        /\ Bound(k) /\ Job(k).status = "error"

\* C6: the first record of a job is downloading with progress 0, a terminal
\* status is entered only from downloading, and successive polls of one job
\* never see a terminal status followed by another status.
C6_StatusOrder ==
    [][\A j \in Jobs :
         /\ (~Bound(j) /\ HasJob(DOWNLOAD_JOBS', j)) =>
               (JobNext(j).status = "downloading" /\ JobNext(j).progress = 0)
         /\ (Bound(j) /\ Terminal(JobNext(j).status) /\ JobNext(j).status # Job(j).status) =>
               Job(j).status = "downloading"
         /\ (seen[j] # <<>> /\ Terminal(seen[j][1])) => seen'[j][1] = seen[j][1]]_vars

C6_Witness ==
    /\ seen[Watched] # <<>>
    /\ Terminal(seen[Watched][1])
    /\ cpc = "status"
    /\ cjob = Watched

\* C7: the body that download_status returns is a field combination the
\* job's record held at some moment of the poll; done comes with progress 100
\* and a filename, error with an error message.
C7_ResponseWasHeld ==
    [][(cpc = "status" /\ cpc' = "idle") =>
          /\ resp'.kind = "status" /\ resp'.code = 200
          /\ <<resp'.body[1], resp'.body[2], resp'.body[3], resp'.body[4]>> \in held
          /\ resp'.body[1] = "done" => (resp'.body[2] = 100 /\ resp'.body[3] # None)
          /\ resp'.body[1] = "error" => resp'.body[4] # None]_vars

\* a response read from the dict of a job that the worker has since rebound
C7_Witness ==
    /\ resp.kind = "status"
    /\ resp.code = 200
    /\ resp.body[1] = "downloading"
    /\ resp.body[2] > 0
    /\ Bound(resp.job)
    /\ Terminal(Job(resp.job).status)

\* C8: a step that changes the record of one job is a step of that job's
\* worker alone: it changes no other job's record and moves no other worker.
C8_OtherJobsUnchanged ==
    [][\A j, k \in Jobs :
         (j # k /\ (DOWNLOAD_JOBS'[j] # DOWNLOAD_JOBS[j] \/ heap'[j] # heap[j])) =>
            /\ DOWNLOAD_JOBS'[k] = DOWNLOAD_JOBS[k]
            /\ heap'[k] = heap[k]
            /\ wpc'[k] = wpc[k]]_vars

C8_Witness ==
    \E j, k \in Jobs :
        /\ j # k
        /\ Bound(j) /\ Job(j).status = "error"
        /\ Bound(k) /\ Job(k).status = "downloading" /\ Job(k).progress > 0

\* C9: download_file answers 404 exactly when the id has no record, hands out
\* the recorded path only when the job is done and the file exists, answers
\* 400 otherwise, and leaves the registry as it was.
C9_FileEndpoint ==
    [][/\ (cpc = "idle" /\ resp' # resp /\ resp'.kind = "file") =>
             (resp'.code = 404 /\ ~Bound(resp'.job))
       /\ (cpc = "idle" /\ cpc' = "file") => Bound(cjob')
       /\ (cpc = "file" /\ cpc' = "idle") =>
             /\ resp'.kind = "file"
             /\ resp'.code \in {200, 400}
             /\ resp'.code = 200 =>
                   /\ Job(cjob).status = "done"
                   /\ Job(cjob).path \in files
                   /\ resp'.body = Job(cjob).path
       /\ (cpc' # cpc \/ resp' # resp) /\ (cpc = "file" \/ cpc' = "file" \/ resp'.kind = "file") =>
             (DOWNLOAD_JOBS' = DOWNLOAD_JOBS /\ heap' = heap)]_vars

C9_Witness ==
    /\ resp.kind = "file"
    /\ resp.code = 200

\* C10: every job whose worker was started eventually has status done or
\* error, and a worker that has ended never runs again.
C10_EventuallyTerminal ==
    \A j \in Jobs :
        /\ (wpc[j] # "idle") ~> (Bound(j) /\ Terminal(Job(j).status))
        /\ [](wpc[j] = "end" => [](wpc[j] = "end"))

C10_Witness ==
    \E j \in Jobs :
        /\ wpc[j] = "end"
        /\ Bound(j) /\ Job(j).status = "done"
        /\ Job(j).filename = "Song.mp4"

\* C11: whenever a job's record has status error, its error message is a
\* non-empty string.
C11_ErrorMessageNonEmpty ==
    \A j \in Jobs :
        (Bound(j) /\ Job(j).status = "error") =>
            (Job(j).error # None /\ Job(j).error # "")

\* ---------------------------------------------------- the option builder
\* the metadata has a stream with a real video (audio) codec
HasVideoStream(info) ==
    \E i \in DOMAIN info.formats : info.formats[i].vcodec \notin {"", "none"}
HasAudioStream(info) ==
    \E i \in DOMAIN info.formats : info.formats[i].acodec \notin {"", "none"}

\* the integer heights the formats of the metadata carry, and the non-zero ones
IntegerHeights(info) ==
    {info.formats[i].height : i \in {k \in DOMAIN info.formats :
                                        info.formats[k].hkind = "int"}}
NonZeroHeights(info) == IntegerHeights(info) \ {0}

\* the n largest elements of a set of integers, and a set listed largest first
Largest(S, n) == {h \in S : Cardinality({g \in S : g > h}) < n}
Ranked(T) ==
    [i \in 1..Cardinality(T) |-> CHOOSE h \in T : Cardinality({g \in T : g > h}) = i - 1]

\* the ids of the height options for the largest heights of S
HeightIdsFor(S) ==
    LET hs == Ranked(Largest(S, MaxHeightOptions))
    IN [i \in 1..Len(hs) |-> "height_" \o ToString(hs[i])]

Ids(options) == [i \in 1..Len(options) |-> options[i].id]
IsHeightOption(o) == o.id \notin {"best", "audio_only", "best_audio"}
HeightIds(options) == Ids(SelectSeq(options, IsHeightOption))
Merges(o) == \E k \in DOMAIN o.format_spec : o.format_spec[k] = "+"

\* the calls made so far
Calls == {pout[i] : i \in DOMAIN pout}

\* C12: for metadata with both a video and an audio stream and ffmpeg
\* available, the option list is exactly one height option per distinct
\* integer height (the 8 largest at most, descending), then exactly one best
\* option, then exactly one audio_only option.
C12_MergedListExact ==
    \A c \in Calls :
        (c.can_merge /\ HasVideoStream(pin) /\ HasAudioStream(pin)) =>
            Ids(c.options) = HeightIdsFor(NonZeroHeights(pin)) \o <<"best", "audio_only">>

\* C13: without ffmpeg no option's selector contains the merge operator "+",
\* whatever the metadata; and metadata with both a video and an audio stream
\* always gets an option with id audio_only, with or without ffmpeg.
C13_NoMergeWithoutTool ==
    \A c \in Calls :
        /\ ~c.can_merge => \A k \in DOMAIN c.options : ~Merges(c.options[k])
        /\ (HasVideoStream(pin) /\ HasAudioStream(pin)) =>
               \E k \in DOMAIN c.options : c.options[k].id = "audio_only"

\* a call without ffmpeg on metadata with both streams that got height options
C13_Witness ==
    \E c \in Calls :
        /\ ~c.can_merge
        /\ HasVideoStream(pin) /\ HasAudioStream(pin)
        /\ HeightIds(c.options) # <<>>

\* C14 as stated: for any metadata, the height options are the (at most 8)
\* largest distinct integer heights present in the formats, in strictly
\* descending order without repetition.
C14_HeightsOfAnyMetadata ==
    \A c \in Calls : HeightIds(c.options) = HeightIdsFor(IntegerHeights(pin))

\* C14 amended: when the metadata has both a video and an audio stream, the
\* height options are the (at most 8) largest distinct non-zero integer heights
\* present in the formats, in strictly descending order without repetition;
\* for any other metadata there is no height option.
C14_HeightsWhenBoth ==
    \A c \in Calls :
        HeightIds(c.options) =
            IF HasVideoStream(pin) /\ HasAudioStream(pin)
            THEN HeightIdsFor(NonZeroHeights(pin))
            ELSE <<>>

\* a call on metadata with both streams and more than 8 distinct heights
C14_Witness ==
    \E c \in Calls :
        /\ HasVideoStream(pin) /\ HasAudioStream(pin)
        /\ Cardinality(NonZeroHeights(pin)) > MaxHeightOptions
        /\ Len(HeightIds(c.options)) = MaxHeightOptions

Proposing == {d \in HookReports : d.status \in {"downloading", "finished"}}
Proposed(d) ==
    CASE d.status = "finished" -> 100
      [] d.status = "downloading" /\ d.total > 0 -> (100 * d.downloaded) \div d.total
      [] d.status = "downloading" -> 50

\* C19: while a job's record says downloading, a step that keeps the record
\* never lowers its progress, keeps it within 0..100 and keeps the status; and
\* a report of the backend that proposes p stores min(100, max(existing, p)).
C19_ProgressMergeRule ==
    [][\A j \in Jobs :
          (Bound(j) /\ Job(j).status = "downloading"
              /\ DOWNLOAD_JOBS'[j] = DOWNLOAD_JOBS[j]) =>
             /\ Job(j)'.progress >= Job(j).progress
             /\ Job(j)'.progress \in 0..100
             /\ Job(j)'.status = "downloading"
             /\ (wpc[j] = "ydl" /\ wpc'[j] = "ydl" /\ heap'[j] # heap[j]) =>
                    \E d \in Proposing :
                        Job(j)'.progress = Min(100, Max(Job(j).progress, Proposed(d)))]_vars

\* a job still downloading whose reports have brought it to 100
C19_Witness ==
    \E j \in Jobs :
        /\ wpc[j] = "ydl"
        /\ Bound(j)
        /\ Job(j).status = "downloading"
        /\ Job(j).progress = 100

\* ------------------------------------------------- the end of a download
\* C18: for the same download, POST /api/download returns a file exactly when
\* the job ends in done, with the same path and the same filename, and fails
\* exactly when the job ends in error.
C18_SyncMatchesJob ==
    \A i, k \in DOMAIN pout :
        (pout[i].by = "job" /\ pout[k].by = "sync") =>
            LET rec == pout[i].rec
                res == pout[k].res
            IN /\ res.ok <=> rec.status = "done"
               /\ ~res.ok <=> rec.status = "error"
               /\ res.ok => (res.path = rec.path /\ res.filename = rec.filename)

\* both have handled a download whose primary file is missing and whose
\* manifest file exists
C18_Witness ==
    /\ Ran = {"job", "sync"}
    /\ ~pin.spotify /\ ~pin.raises /\ pin.b.info
    /\ pin.b.path \notin pin.fs
    /\ pin.b.req \in pin.fs

\* C20: a generic job ends in done only with a path whose file exists: the
\* primary path if its file exists, else the manifest's first path if that
\* file exists; with neither, or without metadata, it ends in error.
C20_DoneHasVerifiedFile ==
    \A i \in DOMAIN pout :
        (pout[i].by = "job" /\ ~pin.spotify /\ ~pin.raises) =>
            LET rec == pout[i].rec
                b == pin.b
                primary == b.info /\ b.path \in pin.fs
                manifest == b.info /\ b.req \in pin.fs
            IN /\ rec.status = "done" => rec.path \in pin.fs
               /\ primary => (rec.status = "done" /\ rec.path = b.path)
               /\ (~primary /\ manifest) => (rec.status = "done" /\ rec.path = b.req)
               /\ (~primary /\ ~manifest) => rec.status = "error"

\* a generic job that ended in done on the manifest's path
C20_Witness ==
    \E i \in DOMAIN pout :
        /\ pout[i].by = "job"
        /\ ~pin.spotify /\ ~pin.raises
        /\ pin.b.path \notin pin.fs
        /\ pout[i].rec.status = "done"
        /\ pout[i].rec.path = pin.b.req

\* ------------------------------------------------------------ file names
\* the characters no file name may hold: < > : " / \ | ? * and \x00-\x1f
ForbiddenChars ==
    {"<", ">", ":", "\"", "/", "\\", "|", "?", "*", "<NUL>", "<SOH>", "<US>"}

\* C16: whatever the name, the result of _sanitize_filename holds none of
\* < > : " / \ | ? * and no control code, is at most 200 characters long and
\* is not empty.
C16_SanitizedName ==
    \A i \in DOMAIN pout :
        /\ \A k \in DOMAIN pout[i] : pout[i][k] \notin ForbiddenChars
        /\ Len(pout[i]) <= 200
        /\ pout[i] # <<>>

\* a name of more than 200 characters with a forbidden one, cut to 200
C16_Witness ==
    /\ ppc = "sanitize"
    /\ pout # <<>>
    /\ Len(pin) > 200
    /\ \E k \in DOMAIN pin : pin[k] \in ForbiddenChars
    /\ Len(pout[1]) = 200

\* ------------------------------------------------------ capability flags
\* C17: every use of a capability flag sees the value of its first probe: any
\* two decisions on the same flag use the same value.
C17_FlagUsesAgree ==
    \A i, k \in DOMAIN pout :
        pout[i].flag = pout[k].flag => pout[i].value = pout[k].value

\* the characters a file name may not begin or end with: whitespace and "."
EdgeChars == {" ", "<US>", "."}

\* C22: whatever the name, the result of _sanitize_filename neither begins nor
\* ends with a whitespace character or a period, also when the name is longer
\* than 200 characters and is cut.
C22_NoEdgeWhitespaceOrPeriod ==
    \A i \in DOMAIN pout :
        pout[i] # <<>> =>
            /\ pout[i][1] \notin EdgeChars
            /\ pout[i][Len(pout[i])] \notin EdgeChars

\* -------------------------------------------------------- Spotify jobs
\* the audio files the call left behind
ProducedAudio == DOMAIN pin.st_mtime \cap {"/d/u/A.mp3", "/d/u/B.M4A"}

\* C21: a Spotify job ends in done only if spotdl was there, exited with 0 and
\* left at least one audio file, and then with an audio file none of which is
\* newer; without spotdl, on a non-zero exit, on a timeout or without audio
\* files the job ends in error.
C21_SpotifyDoneNeedsAudio ==
    \A i \in DOMAIN pout :
        LET rec == pout[i].rec
            ok == pin.spotdl /\ pin.run = "exit0" /\ ProducedAudio # {}
        IN /\ rec.status = "done" =>
                 /\ ok
                 /\ rec.path \in ProducedAudio
                 /\ \A g \in ProducedAudio : pin.st_mtime[g] <= pin.st_mtime[rec.path]
           /\ ~ok => rec.status = "error"
           /\ ok => rec.status = "done"

\* a job done with the newer of two audio files
C21_Witness ==
    /\ ppc = "spotify"
    /\ pout # <<>>
    /\ pout[1].rec.status = "done"
    /\ Cardinality(ProducedAudio) = 2
    /\ \E g \in ProducedAudio : pin.st_mtime[g] < pin.st_mtime[pout[1].rec.path]

\* ------------------------------------------------- the display filename
\* a field that holds something other than whitespace
NonBlank(t) == \E k \in DOMAIN t : t[k] # " "

\* the file name made of the title t for the produced path
Named(t) ==
    _sanitize_filename(Strip(t, {" "}), DefaultMaxLength)
        \o (IF pin.path.ext # <<>> THEN pin.path.ext ELSE Mp4)

\* C23: the title is the metadata title if non-blank, else the full title if
\* non-blank, else the track name if non-blank, else the stem of the produced
\* file without its "<id>_" prefix, else "media"; the extension of the path
\* (".mp4" without one) is appended and the filename is never empty.
C23_TitlePrecedence ==
    \A i \in DOMAIN pout :
        LET info == pin.info
            stem == pin.path.stem
            prefix == info.id \o <<"_">>
            prefixed == info.id # <<>> /\ Len(prefix) <= Len(stem)
                            /\ SubSeq(stem, 1, Len(prefix)) = prefix
            rest == SubSeq(stem, Len(prefix) + 1, Len(stem))
        IN /\ pout[i] # <<>>
           /\ pout[i] =
                 IF NonBlank(info.title) THEN Named(info.title)
                 ELSE IF NonBlank(info.fulltitle) THEN Named(info.fulltitle)
                 ELSE IF NonBlank(info.track) THEN Named(info.track)
                 ELSE IF prefixed THEN Named(rest)
                 ELSE IF stem # <<>> THEN Named(stem)
                 ELSE Named(<<"m", "e", "d", "i", "a">>)

====
